---- MODULE Spec2Model ----
(***************************************************************************)
(* Model of envcloak/encryptor.py: PBKDF2 key derivation, the AES-GCM      *)
(* envelope codec (encrypt / decrypt), and the file adapter with its two   *)
(* SHA-256 integrity layers (encrypt_file / decrypt_file).                 *)
(*                                                                         *)
(* Text is a sequence of code points, bytes are integers 0..255, and the   *)
(* conversions between them (UTF-8, base64, JSON serialisation) are        *)
(* computed as Python computes them.  AES-GCM is modelled as an ideal      *)
(* AEAD: a keystream cipher whose tag authenticates exactly the triple     *)
(* (key, nonce, ciphertext).  SHA-256 is modelled as an ideal (injective)  *)
(* hash.  Exceptions are results [ok |-> FALSE, err |-> kind].             *)
(***************************************************************************)
EXTENDS Integers, Sequences, FiniteSets, TLC

\* ------------------------------------------------------------------ bounds

\* Longest plaintext, in code points.
MaxLen == 2

\* Longest salt handed to derive_key, in bytes.
MaxSaltLen == 18

\* ------------------------------------------------------- program constants

SALT_SIZE == 16
KEY_SIZE == 32
NONCE_SIZE == 12

\* ----------------------------------------------------------------- helpers

\* A returned value, or a raised exception with the chain of its causes
\* (raise X from e).
Ok(v) == [ok |-> TRUE, val |-> v, err |-> "none", cause |-> <<>>]
Err(kind) == [ok |-> FALSE, val |-> <<>>, err |-> kind, cause |-> <<>>]
RaiseFrom(kind, e) ==
    [ok |-> FALSE, val |-> <<>>, err |-> kind, cause |-> <<e.err>> \o e.cause]

RECURSIVE BitXor(_, _)
BitXor(a, b) ==
    IF a = 0 /\ b = 0 THEN 0
    ELSE (((a % 2) + (b % 2)) % 2) + 2 * BitXor(a \div 2, b \div 2)

RECURSIVE SumSeq(_)
SumSeq(s) == IF s = <<>> THEN 0 ELSE Head(s) + SumSeq(Tail(s))

RECURSIVE Concat(_)
Concat(ss) == IF ss = <<>> THEN <<>> ELSE Head(ss) \o Concat(Tail(ss))

\* --------------------------------------------------------- str <-> bytes

\* str.encode(): UTF-8; a lone surrogate raises UnicodeEncodeError.
IsSurrogate(cp) == cp >= 55296 /\ cp <= 57343

Utf8EncodeChar(cp) ==
    IF cp < 128 THEN <<cp>>
    ELSE IF cp < 2048 THEN <<192 + (cp \div 64), 128 + (cp % 64)>>
    ELSE IF cp < 65536
         THEN <<224 + (cp \div 4096), 128 + ((cp \div 64) % 64), 128 + (cp % 64)>>
    ELSE <<240 + (cp \div 262144), 128 + ((cp \div 4096) % 64),
           128 + ((cp \div 64) % 64), 128 + (cp % 64)>>

Utf8Encode(text) ==
    IF \E i \in 1..Len(text) : IsSurrogate(text[i])
    THEN Err("UnicodeEncodeError")
    ELSE Ok(Concat([i \in 1..Len(text) |-> Utf8EncodeChar(text[i])]))

IsCont(b) == b >= 128 /\ b < 192

\* bytes.decode(): strict UTF-8; malformed input raises UnicodeDecodeError.
RECURSIVE Utf8DecodeFrom(_, _, _)
Utf8DecodeFrom(bs, i, acc) ==
    IF i > Len(bs) THEN Ok(acc)
    ELSE LET b == bs[i] IN
      IF b < 128 THEN Utf8DecodeFrom(bs, i + 1, Append(acc, b))
      ELSE IF b >= 194 /\ b < 224 /\ i + 1 <= Len(bs) /\ IsCont(bs[i + 1])
        THEN Utf8DecodeFrom(bs, i + 2,
                 Append(acc, (b - 192) * 64 + (bs[i + 1] - 128)))
      ELSE IF b >= 224 /\ b < 240 /\ i + 2 <= Len(bs)
              /\ IsCont(bs[i + 1]) /\ IsCont(bs[i + 2])
        THEN LET cp == (b - 224) * 4096 + (bs[i + 1] - 128) * 64
                       + (bs[i + 2] - 128)
             IN IF cp < 2048 \/ IsSurrogate(cp)
                THEN Err("UnicodeDecodeError")
                ELSE Utf8DecodeFrom(bs, i + 3, Append(acc, cp))
      ELSE IF b >= 240 /\ b < 245 /\ i + 3 <= Len(bs)
              /\ IsCont(bs[i + 1]) /\ IsCont(bs[i + 2]) /\ IsCont(bs[i + 3])
        THEN LET cp == (b - 240) * 262144 + (bs[i + 1] - 128) * 4096
                       + (bs[i + 2] - 128) * 64 + (bs[i + 3] - 128)
             IN IF cp < 65536 \/ cp > 1114111
                THEN Err("UnicodeDecodeError")
                ELSE Utf8DecodeFrom(bs, i + 4, Append(acc, cp))
      ELSE Err("UnicodeDecodeError")

Utf8Decode(bs) == Utf8DecodeFrom(bs, 1, <<>>)

\* ----------------------------------------------------------------- base64

\* The base64 alphabet as ASCII codes: A-Z a-z 0-9 + /
B64Char(i) ==
    IF i < 26 THEN 65 + i
    ELSE IF i < 52 THEN 97 + (i - 26)
    ELSE IF i < 62 THEN 48 + (i - 52)
    ELSE IF i = 62 THEN 43
    ELSE 47

\* The 6-bit value of an ASCII code; 64 for a character outside the alphabet.
B64Index(c) ==
    IF c >= 65 /\ c <= 90 THEN c - 65
    ELSE IF c >= 97 /\ c <= 122 THEN c - 97 + 26
    ELSE IF c >= 48 /\ c <= 57 THEN c - 48 + 52
    ELSE IF c = 43 THEN 62
    ELSE IF c = 47 THEN 63
    ELSE 64

B64Pad == 61

\* base64.b64encode(bs).decode()
RECURSIVE B64Encode(_)
B64Encode(bs) ==
    IF Len(bs) = 0 THEN <<>>
    ELSE IF Len(bs) = 1
      THEN <<B64Char(bs[1] \div 4), B64Char((bs[1] % 4) * 16), B64Pad, B64Pad>>
    ELSE IF Len(bs) = 2
      THEN <<B64Char(bs[1] \div 4),
             B64Char((bs[1] % 4) * 16 + (bs[2] \div 16)),
             B64Char((bs[2] % 16) * 4), B64Pad>>
    ELSE <<B64Char(bs[1] \div 4),
           B64Char((bs[1] % 4) * 16 + (bs[2] \div 16)),
           B64Char((bs[2] % 16) * 4 + (bs[3] \div 64)),
           B64Char(bs[3] % 64)>> \o B64Encode(SubSeq(bs, 4, Len(bs)))

\* binascii.a2b_base64 in its default, non-strict mode: characters outside
\* the alphabet are skipped, the bits of a final partial quad that do not
\* fill a byte are dropped, and input after a complete pad is ignored.
RECURSIVE B64DecodeFrom(_, _, _, _, _, _)
B64DecodeFrom(s, i, quad, left, pads, out) ==
    IF i > Len(s)
    THEN IF quad = 0 THEN Ok(out) ELSE Err("binascii.Error")
    ELSE LET c == s[i] IN
      IF c = B64Pad
      THEN IF quad >= 2 /\ quad + pads + 1 >= 4
           THEN Ok(out)
           ELSE B64DecodeFrom(s, i + 1, quad, left,
                              IF quad >= 2 THEN pads + 1 ELSE pads, out)
      ELSE LET d == B64Index(c) IN
        IF d >= 64 THEN B64DecodeFrom(s, i + 1, quad, left, pads, out)
        ELSE IF quad = 0 THEN B64DecodeFrom(s, i + 1, 1, d, 0, out)
        ELSE IF quad = 1
          THEN B64DecodeFrom(s, i + 1, 2, d % 16, 0,
                             Append(out, left * 4 + (d \div 16)))
        ELSE IF quad = 2
          THEN B64DecodeFrom(s, i + 1, 3, d % 4, 0,
                             Append(out, left * 16 + (d \div 4)))
        ELSE B64DecodeFrom(s, i + 1, 0, 0, 0, Append(out, left * 64 + d))

\* base64.b64decode(s) of a str: a non-ASCII character raises ValueError.
B64Decode(s) ==
    IF \E i \in 1..Len(s) : s[i] >= 128 THEN Err("ValueError")
    ELSE B64DecodeFrom(s, 1, 0, 0, 0, <<>>)

\* ---------------------------------------------------------------- AES-GCM

\* A key is [id, len]: its secret value and its length in bytes.
\* algorithms.AES(key) accepts 128-, 192- and 256-bit keys only.
AESKeyOk(key) == key.len \in {16, 24, 32}

\* modes.GCM(nonce): the nonce must be 8 to 128 bytes long.
GCMNonceOk(nonce) == Len(nonce) >= 8 /\ Len(nonce) <= 128

\* The keystream byte at position i under (key, nonce).
Keystream(key, nonce, i) == (key.id * 37 + SumSeq(nonce) + 11 * i) % 256

GCMCrypt(key, nonce, bs) ==
    [i \in 1..Len(bs) |-> BitXor(bs[i], Keystream(key, nonce, i))]

\* The authentication tag of an ideal AEAD: it determines, and is determined
\* by, the key, the nonce and the ciphertext.  It is at least 16 bytes long.
GCMTag(key, nonce, ct) ==
    <<key.id, Len(nonce)>> \o nonce \o <<0, Len(ct)>> \o ct

\* cipher.encryptor(); update(bs) + finalize(); encryptor.tag
GCMEncrypt(key, nonce, bs) ==
    IF ~AESKeyOk(key) \/ ~GCMNonceOk(nonce) THEN Err("ValueError")
    ELSE LET ct == GCMCrypt(key, nonce, bs)
         IN Ok([ct |-> ct, tag |-> GCMTag(key, nonce, ct)])

\* The tag comparison made by decryptor.finalize().
\* (Faulty variant: a comparison that accepts every tag.)
TagMatchesAlways(key, nonce, ct, tag) == TRUE
TagMatches(key, nonce, ct, tag) == tag = GCMTag(key, nonce, ct)

\* cipher.decryptor(); update(ct) + finalize(): InvalidTag unless the tag
\* authenticates (key, nonce, ct).  modes.GCM(nonce, tag) refuses a tag
\* shorter than 16 bytes.
GCMDecrypt(key, nonce, ct, tag) ==
    IF ~AESKeyOk(key) \/ ~GCMNonceOk(nonce) \/ Len(tag) < 16
    THEN Err("ValueError")
    ELSE IF ~TagMatches(key, nonce, ct, tag) THEN Err("InvalidTag")
    ELSE Ok(GCMCrypt(key, nonce, ct))

\* ---------------------------------------------------------------- SHA-256

\* compute_sha256(text): an ideal hash, one distinct non-empty digest string
\* per text.
compute_sha256(text) == <<35>> \o text

\* ------------------------------------------------------------------- dict

\* A dict is the sequence of its items [k, v] in insertion order.
Has(d, k) == \E i \in 1..Len(d) : d[i].k = k
IndexOf(d, k) == CHOOSE i \in 1..Len(d) : d[i].k = k
Get(d, k) == d[IndexOf(d, k)].v
\* d[k] = v: replaces in place, or appends a new key.
Put(d, k, v) ==
    IF Has(d, k) THEN [d EXCEPT ![IndexOf(d, k)].v = v]
    ELSE Append(d, [k |-> k, v |-> v])
\* d.pop(k)
Pop(d, k) ==
    LET n == IndexOf(d, k)
    IN SubSeq(d, 1, n - 1) \o SubSeq(d, n + 1, Len(d))

\* ------------------------------------------------------------------- JSON

KeyChars(k) ==
    CASE k = "ciphertext" -> <<99, 105, 112, 104, 101, 114, 116, 101, 120, 116>>
      [] k = "nonce" -> <<110, 111, 110, 99, 101>>
      [] k = "tag" -> <<116, 97, 103>>
      [] k = "sha" -> <<115, 104, 97>>
      [] k = "file_sha" -> <<102, 105, 108, 101, 95, 115, 104, 97>>

HexDigit(h) == IF h < 10 THEN 48 + h ELSE 97 + (h - 10)

\* One character of a JSON string under ensure_ascii=False: only the quote,
\* the backslash and the control characters are escaped.
JsonEscape(c) ==
    IF c = 34 THEN <<92, 34>>
    ELSE IF c = 92 THEN <<92, 92>>
    ELSE IF c = 10 THEN <<92, 110>>
    ELSE IF c = 13 THEN <<92, 114>>
    ELSE IF c = 9 THEN <<92, 116>>
    ELSE IF c = 8 THEN <<92, 98>>
    ELSE IF c = 12 THEN <<92, 102>>
    ELSE IF c < 32 THEN <<92, 117, 48, 48, HexDigit(c \div 16), HexDigit(c % 16)>>
    ELSE <<c>>

JsonString(s) ==
    <<34>> \o Concat([i \in 1..Len(s) |-> JsonEscape(s[i])]) \o <<34>>

\* json.dumps(d, ensure_ascii=False) of a dict of strings:
\* {"k": "v", "k": "v"} in the dict's order.
JsonDumps(d) ==
    <<123>>
    \o Concat([i \in 1..Len(d) |->
                 (IF i > 1 THEN <<44, 32>> ELSE <<>>)
                 \o JsonString(KeyChars(d[i].k)) \o <<58, 32>>
                 \o JsonString(d[i].v)])
    \o <<125>>

\* ------------------------------------------------------------ the codec

\* The envelope encrypt returns.
\* (Faulty variant: the nonce stored under tag and the tag under nonce.)
EnvelopeSwapped(c, nonce) ==
    <<[k |-> "ciphertext", v |-> B64Encode(c.ct)], [k |-> "nonce", v |-> B64Encode(c.tag)], [k |-> "tag", v |-> B64Encode(nonce)]>>
Envelope(c, nonce) ==
    <<[k |-> "ciphertext", v |-> B64Encode(c.ct)],
      [k |-> "nonce", v |-> B64Encode(nonce)],
      [k |-> "tag", v |-> B64Encode(c.tag)]>>

encryptEncoded(bs, key, nonce) ==
    IF ~bs.ok THEN bs
    ELSE LET c == GCMEncrypt(key, nonce, bs.val)
         IN IF ~c.ok THEN c ELSE Ok(Envelope(c.val, nonce))

\* The try block of encrypt(data, key), nonce being what os.urandom(NONCE_SIZE)
\* returned: the key is checked by algorithms.AES(key) before data.encode().
encryptBody(data, key, nonce) ==
    IF ~AESKeyOk(key) THEN Err("ValueError")
    ELSE encryptEncoded(Utf8Encode(data), key, nonce)

\* except Exception as e: raise EncryptionException(details=str(e)) from e
encryptExcept(r) == IF r.ok THEN r ELSE RaiseFrom("EncryptionException", r)

encrypt(data, key, nonce) == encryptExcept(encryptBody(data, key, nonce))

\* The plaintext-hash check of decrypt, made on the decrypted text.
\* (Faulty variant: no check.)
decryptShaCheckSkipped(encrypted_data, text, validate_integrity) == Ok(text)
decryptShaCheck(encrypted_data, text, validate_integrity) ==
    IF validate_integrity /\ Has(encrypted_data, "sha")
       /\ compute_sha256(text) # Get(encrypted_data, "sha")
    THEN Err("IntegrityCheckFailedException")
    ELSE Ok(text)

\* base64.b64decode(encrypted_data[field]): KeyError for a missing field.
DecodeField(encrypted_data, field) ==
    IF Has(encrypted_data, field) THEN B64Decode(Get(encrypted_data, field))
    ELSE Err("KeyError")

\* decrypt from line 97 on, the three fields decoded: the AEAD decryption,
\* then plaintext.decode() and the plaintext-hash check.
decryptDecoded(encrypted_data, key, validate_integrity, nonce, ct, tag) ==
    IF ~nonce.ok THEN nonce
    ELSE IF ~ct.ok THEN ct
    ELSE IF ~tag.ok THEN tag
    ELSE LET pt == GCMDecrypt(key, nonce.val, ct.val, tag.val)
         IN IF ~pt.ok THEN pt
            ELSE LET text == Utf8Decode(pt.val)
                 IN IF ~text.ok THEN text
                    ELSE decryptShaCheck(encrypted_data, text.val,
                                         validate_integrity)

\* The try block of decrypt(encrypted_data, key, validate_integrity).
decryptBody(encrypted_data, key, validate_integrity) ==
    decryptDecoded(encrypted_data, key, validate_integrity,
                   DecodeField(encrypted_data, "nonce"),
                   DecodeField(encrypted_data, "ciphertext"),
                   DecodeField(encrypted_data, "tag"))

\* except Exception as e: raise DecryptionException(details=str(e)) from e
\* (Faulty variant: IntegrityCheckFailedException is let through.)
decryptExceptLeaky(r) == IF r.ok \/ r.err = "IntegrityCheckFailedException" THEN r ELSE RaiseFrom("DecryptionException", r)
decryptExcept(r) == IF r.ok THEN r ELSE RaiseFrom("DecryptionException", r)

decrypt(encrypted_data, key, validate_integrity) ==
    decryptExcept(decryptBody(encrypted_data, key, validate_integrity))

\* --------------------------------------------------------- key derivation

\* PBKDF2HMAC(SHA256, length=KEY_SIZE, salt, iterations=100000)
\*   .derive(password.encode()): a key fixed by the password and the salt.
PBKDF2(pw, s) ==
    IF ~pw.ok THEN pw
    ELSE Ok([id |-> (7 * SumSeq(pw.val) + 3 * SumSeq(s) + Len(pw.val)) % 251,
             len |-> KEY_SIZE])

\* if len(salt) != SALT_SIZE
\* (Faulty variant: only a short salt is refused.)
SaltSizeWrongIfShort(s) == Len(s) < SALT_SIZE
SaltSizeWrong(s) == Len(s) # SALT_SIZE

\* except Exception as e: raise InvalidKeyException(details=str(e)) from e
deriveExcept(r) == IF r.ok THEN r ELSE RaiseFrom("InvalidKeyException", r)

\* derive_key(password, salt): [res, started], started telling whether the
\* try block holding the derivation was entered.
derive_key(pw, s) ==
    IF SaltSizeWrong(s)
    THEN [res |-> Err("InvalidSaltException"), started |-> FALSE]
    ELSE [res |-> deriveExcept(PBKDF2(Utf8Encode(pw), s)), started |-> TRUE]

\* generate_salt(): os.urandom(SALT_SIZE)
GeneratedSalts ==
    {[i \in 1..SALT_SIZE |-> 0], [i \in 1..SALT_SIZE |-> (i * 53) % 256]}

\* ----------------------------------------------------------------- inputs

\* Code points plaintexts are drawn from: "A" (one byte in UTF-8), U+00E9
\* (two bytes) and the lone surrogate U+D800 (a str may hold it; UTF-8
\* cannot encode it).
Chars == {65, 233, 55296}

Texts == UNION {[1..n -> Chars] : n \in 0..MaxLen}

\* Two 32-byte keys and one of a length AES refuses.
Keys == {[id |-> 1, len |-> KEY_SIZE], [id |-> 2, len |-> KEY_SIZE],
         [id |-> 3, len |-> KEY_SIZE - 1]}

\* Values os.urandom(NONCE_SIZE) may return.
Nonces == {[i \in 1..NONCE_SIZE |-> 0], [i \in 1..NONCE_SIZE |-> (i * 29) % 256]}

EnvelopeFields == {"ciphertext", "nonce", "tag"}

RECURSIVE Pow2(_)
Pow2(n) == IF n = 0 THEN 1 ELSE 2 * Pow2(n - 1)

\* The string s with bit b of its i-th character flipped.
FlipBit(s, i, b) == [s EXCEPT ![i] = BitXor(s[i], Pow2(b))]

NoResult == Err("pending")

\* A file: absent, raw bytes, or a JSON object (the dict json.load returns).
NoFile == [kind |-> "missing", bytes |-> <<>>, doc |-> <<>>]
BytesFile(bs) == [kind |-> "bytes", bytes |-> bs, doc |-> <<>>]
JsonFile(d) == [kind |-> "json", bytes |-> <<>>, doc |-> d]

\* ------------------------------------------------------------------ state

VARIABLES
    pc,          \* where the run stands
    data,        \* the plaintext handed to encrypt
    key,         \* the key handed to encrypt / encrypt_file
    issued,      \* the envelope encrypt returned
    envelope,    \* the envelope handed to decrypt (issued, possibly altered)
    tampered,    \* TRUE once a bit of the envelope was flipped
    decKey,      \* the key handed to decrypt / decrypt_file
    validate,    \* validate_integrity
    result,      \* what the last operation returned or raised
    inFile,      \* the plaintext file encrypt_file reads
    encFile,     \* the envelope file encrypt_file writes, decrypt_file reads
    outFile,     \* the file at decrypt_file's output path
    outBefore,   \* that file as it was before decrypt_file ran
    resealed,    \* TRUE once file_sha was recomputed by someone else
    codecResult, \* what the inner encrypt / decrypt call returned or raised
    decryptCalled, \* TRUE once decrypt_file has called decrypt
    warnings,    \* the warnings decrypt_file echoed
    password,    \* the password handed to derive_key
    salt,        \* the salt handed to derive_key
    derivationStarted  \* TRUE once derive_key has entered its PBKDF2 step

codecVars == <<data, key, issued, envelope, tampered, decKey, validate, result>>
fileVars ==
    <<inFile, encFile, outFile, outBefore, resealed, codecResult,
      decryptCalled, warnings>>
kdfVars == <<password, salt, derivationStarted>>
vars == <<pc, codecVars, fileVars, kdfVars>>

\* ------------------------------------------------- the codec's operations

Init ==
    /\ pc = "idle"
    /\ data = <<>>
    /\ key = [id |-> 1, len |-> KEY_SIZE]
    /\ issued = <<>>
    /\ envelope = <<>>
    /\ tampered = FALSE
    /\ decKey = [id |-> 1, len |-> KEY_SIZE]
    /\ validate = TRUE
    /\ result = NoResult
    /\ inFile = NoFile
    /\ encFile = NoFile
    /\ outFile = NoFile
    /\ outBefore = NoFile
    /\ resealed = FALSE
    /\ codecResult = NoResult
    /\ decryptCalled = FALSE
    /\ warnings = <<>>
    /\ password = <<>>
    /\ salt = <<>>
    /\ derivationStarted = FALSE

\* encrypt(data, key)
Encrypt(d, k, n) ==
    /\ pc = "idle"
    /\ \E r \in {encrypt(d, k, n)} :
          /\ result' = (IF r.ok THEN NoResult ELSE r)
          /\ issued' = r.val
          /\ envelope' = r.val
          /\ pc' = (IF r.ok THEN "encrypted" ELSE "encrypt_failed")
    /\ data' = d
    /\ key' = k
    /\ UNCHANGED <<tampered, decKey, validate, fileVars, kdfVars>>

\* Storage or transit flips one bit of one field of the envelope.
Tamper(f, i, b) ==
    /\ pc = "encrypted"
    /\ ~tampered
    /\ i \in 1..Len(Get(envelope, f))
    /\ envelope' = Put(envelope, f, FlipBit(Get(envelope, f), i, b))
    /\ tampered' = TRUE
    /\ UNCHANGED <<pc, data, key, issued, decKey, validate, result, fileVars,
                   kdfVars>>

\* decrypt(envelope, key, validate_integrity)
Decrypt(k, v) ==
    /\ pc = "encrypted"
    /\ result' = decrypt(envelope, k, v)
    /\ decKey' = k
    /\ validate' = v
    /\ pc' = "decrypted"
    /\ UNCHANGED <<data, key, issued, envelope, tampered, fileVars, kdfVars>>

Next ==
    \/ \E d \in Texts, k \in Keys, n \in Nonces : Encrypt(d, k, n)
    \/ \E f \in EnvelopeFields, i \in 1..64, b \in 0..7 : Tamper(f, i, b)
    \/ \E k \in Keys, v \in BOOLEAN : Decrypt(k, v)

Spec == Init /\ [][Next]_vars

\* ------------------------------------------------------------- C1, C2

\* The bytes a field of an envelope decodes to.
Decoded(env, f) == B64Decode(Get(env, f))

SameBytes == \A f \in EnvelopeFields : Decoded(envelope, f) = Decoded(issued, f)

\* C1 as stated: for every text plaintext P and every 32-byte key K,
\* encrypt(P, K) succeeds and decrypt of the returned envelope under K
\* returns exactly P, with validate_integrity true or false.
C1_RoundTripEveryText ==
    /\ (pc = "encrypt_failed" => key.len # KEY_SIZE)
    /\ (pc = "decrypted" /\ ~tampered /\ decKey = key /\ key.len = KEY_SIZE
          => result = Ok(data))

\* C1 (amended): for every text plaintext P that UTF-8 can encode (no lone
\* surrogate) and every 32-byte key K, encrypt(P, K) succeeds and
\* decrypt(encrypt(P, K), K) returns exactly P, with validate_integrity true
\* or false; for a P holding a lone surrogate encrypt raises
\* EncryptionException and there is no envelope.
C1_RoundTrip ==
    /\ (pc = "encrypt_failed" /\ key.len = KEY_SIZE
          => ~Utf8Encode(data).ok /\ result.err = "EncryptionException")
    /\ (pc # "idle" /\ key.len = KEY_SIZE /\ Utf8Encode(data).ok
          => pc # "encrypt_failed" /\ ~Has(issued, "sha"))
    /\ (pc = "decrypted" /\ ~tampered /\ decKey = key /\ key.len = KEY_SIZE
          => result = Ok(data))

C1_Witness ==
    /\ pc = "decrypted" /\ ~tampered /\ decKey = key /\ key.len = KEY_SIZE
    /\ Len(data) = MaxLen /\ data[1] = 233
    /\ result = Ok(data)

\* C2 as stated: any change to the value of ciphertext, nonce or tag makes
\* decrypt under the same key fail with an error.
C2_AnyChangeFails ==
    pc = "decrypted" /\ tampered /\ decKey = key
      => ~result.ok /\ result.err = "DecryptionException"

\* C2 (amended): a change to ciphertext, nonce or tag that changes the bytes
\* the field base64-decodes to, or makes it undecodable, makes decrypt fail
\* with DecryptionException; a change that leaves the decoded bytes of every
\* field the same is not detected and decrypt returns P; whatever
\* validate_integrity is, decrypt never returns a plaintext other than P.
C2_TamperSensitivity ==
    pc = "decrypted" /\ tampered /\ decKey = key
      => /\ (result.ok => result.val = data)
         /\ (~SameBytes => ~result.ok /\ result.err = "DecryptionException")
         /\ (SameBytes => result = Ok(data))

C2_Witness ==
    /\ pc = "decrypted" /\ tampered /\ decKey = key
    /\ Get(envelope, "ciphertext") # Get(issued, "ciphertext")
    /\ ~SameBytes
    /\ result.err = "DecryptionException"
    /\ result.cause = <<"InvalidTag">>

\* --------------------------------------------------------- the file adapter

\* open(path, "r", encoding="utf-8").read()
ReadText(file) ==
    IF file.kind = "missing" THEN Err("FileNotFoundError")
    ELSE Utf8Decode(file.bytes)

\* json.load(open(path)): the dict of a file holding a JSON object.
JsonLoad(file) ==
    IF file.kind = "missing" THEN Err("FileNotFoundError")
    ELSE IF file.kind = "json" THEN Ok(file.doc)
    ELSE Err("JSONDecodeError")

\* encrypted_data["sha"] = ...; then encrypted_data["file_sha"] = the hash of
\* json.dumps of the dict as it stands, sha included.
\* (Faulty variant: file_sha computed and attached before sha.)
AttachHashesFileShaFirst(encrypted_data, text) ==
    Put(Put(encrypted_data, "file_sha", compute_sha256(JsonDumps(encrypted_data))), "sha", compute_sha256(text))
AttachHashes(encrypted_data, text) ==
    LET withSha == Put(encrypted_data, "sha", compute_sha256(text))
    IN Put(withSha, "file_sha", compute_sha256(JsonDumps(withSha)))

\* encrypt_file from line 129 on, enc being what encrypt returned or raised.
encryptFileAfterEncrypt(text, enc, output) ==
    IF ~enc.ok THEN [res |-> enc, codec |-> enc, file |-> output]
    ELSE [res |-> Ok(<<>>), codec |-> enc,
          file |-> JsonFile(AttachHashes(enc.val, text))]

encryptFileRead(text, output, k, n) ==
    IF ~text.ok THEN [res |-> text, codec |-> NoResult, file |-> output]
    ELSE encryptFileAfterEncrypt(text.val, encrypt(text.val, k, n), output)

\* The try block of encrypt_file: [res, codec, file], codec being what
\* encrypt returned or raised and file what the output path holds afterwards.
encryptFileBody(input, output, k, n) ==
    encryptFileRead(ReadText(input), output, k, n)

\* except Exception as e: raise FileEncryptionException(details=str(e)) from e
fileEncryptExcept(r) ==
    IF r.ok THEN r ELSE RaiseFrom("FileEncryptionException", r)

encrypt_file(input, output, k, n) ==
    [encryptFileBody(input, output, k, n) EXCEPT !.res = fileEncryptExcept(@)]

\* expected_file_sha = encrypted_data.get("file_sha"); if expected_file_sha:
\* None and the empty string are both falsy.
FileShaGiven(encrypted_data) ==
    Has(encrypted_data, "file_sha") /\ Get(encrypted_data, "file_sha") # <<>>

\* The hash decrypt_file recomputes: over the dict without file_sha.
ActualFileSha(encrypted_data) ==
    compute_sha256(JsonDumps(Pop(encrypted_data, "file_sha")))

\* if expected_file_sha != actual_file_sha, under if expected_file_sha:
\* (Faulty variant: a missing file_sha counts as a mismatch.)
FileShaMismatchStrict(encrypted_data) ==
    ~Has(encrypted_data, "file_sha") \/ Get(encrypted_data, "file_sha") # ActualFileSha(encrypted_data)
FileShaMismatch(encrypted_data) ==
    /\ FileShaGiven(encrypted_data)
    /\ Get(encrypted_data, "file_sha") # ActualFileSha(encrypted_data)

\* An exception raised in decrypt_file's try block before line 212: the
\* output path has not been opened and holds what it held.
\* (Faulty variant: the output path was opened for writing beforehand.)
AbortTruncating(r, c, called, w, output) ==
    [res |-> r, codec |-> c, called |-> called, warnings |-> w, file |-> BytesFile(<<>>)]
Abort(r, c, called, w, output) ==
    [res |-> r, codec |-> c, called |-> called, warnings |-> w,
     file |-> output]

FileShaWarning == "file_sha missing"
ShaWarning == "sha missing"

\* decrypt_file from line 193 on, dec being what decrypt returned or raised:
\* the outer plaintext-hash check, then the write of the output.
decryptFileAfterDecrypt(d, dec, w1, output, v) ==
    IF ~dec.ok THEN Abort(dec, dec, TRUE, w1, output)
    ELSE IF v /\ Has(d, "sha") /\ compute_sha256(dec.val) # Get(d, "sha")
      THEN Abort(Err("IntegrityCheckFailedException"), dec, TRUE, w1, output)
    ELSE [res |-> Ok(<<>>), codec |-> dec, called |-> TRUE,
          warnings |->
              w1 \o (IF v /\ ~Has(d, "sha") THEN <<ShaWarning>> ELSE <<>>),
          file |-> BytesFile(Utf8Encode(dec.val).val)]

\* decrypt_file from line 164 on, loaded being what json.load returned or
\* raised: the file_sha check, then the call of decrypt.
decryptFileLoaded(loaded, output, k, v) ==
    IF ~loaded.ok THEN Abort(loaded, NoResult, FALSE, <<>>, output)
    ELSE IF v /\ FileShaMismatch(loaded.val)
      THEN Abort(Err("IntegrityCheckFailedException"), NoResult, FALSE, <<>>,
                 output)
    ELSE decryptFileAfterDecrypt(
             loaded.val, decrypt(loaded.val, k, v),
             IF v /\ ~FileShaGiven(loaded.val) THEN <<FileShaWarning>>
             ELSE <<>>,
             output, v)

\* The try block of decrypt_file: [res, codec, called, warnings, file], with
\* called telling whether decrypt was called, codec what it returned or
\* raised, and file what the output path holds afterwards.
decryptFileBody(input, output, k, v) ==
    decryptFileLoaded(JsonLoad(input), output, k, v)

\* except Exception as e: raise FileDecryptionException(details=str(e)) from e
fileDecryptExcept(r) ==
    IF r.ok THEN r ELSE RaiseFrom("FileDecryptionException", r)

decrypt_file(input, output, k, v) ==
    [decryptFileBody(input, output, k, v) EXCEPT !.res = fileDecryptExcept(@)]

\* ----------------------------------------------- the file adapter's runs

\* A file some earlier run left at the output path.
OldOutput == BytesFile(<<111, 108, 100>>)

\* Plaintext files: every encodable text, and one that is not UTF-8.
InputFiles ==
    {NoFile, BytesFile(<<255>>)}
    \cup {BytesFile(Utf8Encode(t).val) : t \in {x \in Texts : Utf8Encode(x).ok}}

AllFields == {"ciphertext", "nonce", "tag", "sha", "file_sha"}

FileInit ==
    /\ pc = "idle"
    /\ data = <<>>
    /\ key = [id |-> 1, len |-> KEY_SIZE]
    /\ issued = <<>>
    /\ envelope = <<>>
    /\ tampered = FALSE
    /\ decKey = [id |-> 1, len |-> KEY_SIZE]
    /\ validate = TRUE
    /\ result = NoResult
    /\ inFile \in InputFiles
    /\ encFile = NoFile
    /\ outFile \in {NoFile, OldOutput}
    /\ outBefore = outFile
    /\ resealed = FALSE
    /\ codecResult = NoResult
    /\ decryptCalled = FALSE
    /\ warnings = <<>>
    /\ password = <<>>
    /\ salt = <<>>
    /\ derivationStarted = FALSE

\* encrypt_file(input_file, output_file, key)
EncryptFile(k, n) ==
    /\ pc = "idle"
    /\ \E r \in {encrypt_file(inFile, encFile, k, n)} :
          /\ encFile' = r.file
          /\ issued' = r.file.doc
          /\ result' = r.res
          /\ codecResult' = r.codec
          /\ pc' = (IF r.res.ok THEN "stored" ELSE "unstored")
    /\ data' = ReadText(inFile).val
    /\ key' = k
    /\ UNCHANGED <<envelope, tampered, decKey, validate, inFile, outFile,
                   outBefore, resealed, decryptCalled, warnings, kdfVars>>

\* What happens to the envelope file between the two runs.
Alter(file) ==
    /\ pc = "stored"
    /\ ~tampered
    /\ encFile.kind = "json"
    /\ encFile' = file
    /\ tampered' = TRUE
    /\ UNCHANGED <<pc, data, key, issued, envelope, decKey, validate, result,
                   inFile, outFile, outBefore, resealed, codecResult,
                   decryptCalled, warnings, kdfVars>>

\* One bit of the first or last character of a field's value flips.
FlipFileBit(f, last, b) ==
    /\ Has(encFile.doc, f)
    /\ LET v == Get(encFile.doc, f)
       IN /\ v # <<>>
          /\ Alter(JsonFile(Put(encFile.doc, f,
                   FlipBit(v, IF last THEN Len(v) ELSE 1, b))))

\* A field's value is replaced by the empty string.
EmptyField(f) ==
    /\ Has(encFile.doc, f)
    /\ Alter(JsonFile(Put(encFile.doc, f, <<>>)))

\* A field is deleted.
RemoveField(f) ==
    /\ Has(encFile.doc, f)
    /\ Alter(JsonFile(Pop(encFile.doc, f)))

\* The file is rewritten as an envelope without hashes, as encrypt alone
\* produces it.
StripHashes ==
    /\ Has(encFile.doc, "sha") /\ Has(encFile.doc, "file_sha")
    /\ Alter(JsonFile(Pop(Pop(encFile.doc, "sha"), "file_sha")))

\* The file is overwritten with something that is not JSON.
Garble == Alter(BytesFile(<<110, 111>>))

\* Whoever altered the file recomputes file_sha over it.
Reseal ==
    /\ pc = "stored"
    /\ tampered
    /\ ~resealed
    /\ encFile.kind = "json"
    /\ Has(encFile.doc, "file_sha")
    /\ encFile' = JsonFile(Put(encFile.doc, "file_sha",
                               ActualFileSha(encFile.doc)))
    /\ resealed' = TRUE
    /\ UNCHANGED <<pc, data, key, issued, envelope, tampered, decKey, validate,
                   result, inFile, outFile, outBefore, codecResult,
                   decryptCalled, warnings, kdfVars>>

\* decrypt_file(input_file, output_file, key, validate_integrity)
DecryptFile(k, v) ==
    /\ pc \in {"stored", "unstored"}
    /\ \E r \in {decrypt_file(encFile, outFile, k, v)} :
          /\ outFile' = r.file
          /\ result' = r.res
          /\ codecResult' = r.codec
          /\ decryptCalled' = r.called
          /\ warnings' = r.warnings
    /\ decKey' = k
    /\ validate' = v
    /\ pc' = "decrypted"
    /\ UNCHANGED <<data, key, issued, envelope, tampered, inFile, encFile,
                   outBefore, resealed, kdfVars>>

FileNext ==
    \/ \E k \in Keys, n \in Nonces : EncryptFile(k, n)
    \/ \E f \in AllFields, last \in BOOLEAN, b \in 0..7 : FlipFileBit(f, last, b)
    \/ \E f \in AllFields : EmptyField(f)
    \/ \E f \in AllFields : RemoveField(f)
    \/ StripHashes
    \/ Garble
    \/ Reseal
    \/ \E k \in Keys, v \in BOOLEAN : DecryptFile(k, v)

FileSpec == FileInit /\ [][FileNext]_vars

\* ------------------------------------------------------------ C3 .. C10

Integrity == "IntegrityCheckFailedException"

\* The envelope file parses and still has every field encrypt_file wrote.
AllFieldsKept ==
    encFile.kind = "json" /\ \A f \in AllFields : Has(encFile.doc, f)

\* The text the envelope file decrypts to under decKey when no integrity
\* check is asked for.
Unchecked == decrypt(encFile.doc, decKey, FALSE)

\* C3 as stated: with validate_integrity=True, whenever the parsed envelope
\* has a file_sha field whose value differs from the hash recomputed over
\* the other fields, decrypt_file fails with an integrity failure and never
\* calls decrypt; decrypt is called only after the file_sha check passed or
\* with the field absent.
C3_FileShaBeforeDecrypt ==
    pc = "decrypted" /\ validate /\ encFile.kind = "json"
    /\ Has(encFile.doc, "file_sha")
    /\ Get(encFile.doc, "file_sha") # ActualFileSha(encFile.doc)
      => /\ ~decryptCalled
         /\ result.err = "FileDecryptionException"
         /\ result.cause = <<Integrity>>

C5_EveryMutationDetected ==
    pc = "decrypted" /\ validate /\ tampered /\ ~resealed /\ AllFieldsKept
    /\ encFile.doc # issued
      => ~result.ok /\ result.cause = <<Integrity>>

\* C6: with validate_integrity=True, an envelope with valid ciphertext,
\* nonce and tag and neither sha nor file_sha decrypts: the plaintext is
\* written to the output and the two skip warnings are echoed, file_sha's
\* first.
C6_BackwardCompatible ==
    pc = "decrypted" /\ validate /\ decKey = key /\ encFile.kind = "json"
    /\ issued # <<>> /\ encFile.doc = Pop(Pop(issued, "sha"), "file_sha")
      => /\ result.ok
         /\ outFile = BytesFile(inFile.bytes)
         /\ warnings = <<FileShaWarning, ShaWarning>>

C6_Witness ==
    /\ pc = "decrypted" /\ validate /\ decKey = key /\ encFile.kind = "json"
    /\ issued # <<>> /\ encFile.doc = Pop(Pop(issued, "sha"), "file_sha")
    /\ outBefore = NoFile /\ outFile = BytesFile(inFile.bytes)
    /\ Len(data) = MaxLen
    /\ warnings = <<FileShaWarning, ShaWarning>>

\* C7: encrypt_file fails only with FileEncryptionException and decrypt_file
\* only with FileDecryptionException; the encrypt call inside fails only
\* with EncryptionException and the decrypt call only with
\* DecryptionException, a plaintext-hash mismatch included.
C7_UniformErrors ==
    /\ (pc \in {"stored", "unstored"}
          => /\ (result.ok \/ result.err = "FileEncryptionException")
             /\ (codecResult.ok \/ codecResult = NoResult
                   \/ codecResult.err = "EncryptionException"))
    /\ (pc = "decrypted"
          => /\ (result.ok \/ result.err = "FileDecryptionException")
             /\ (codecResult.ok \/ codecResult = NoResult
                   \/ codecResult.err = "DecryptionException"))

\* The codec's plaintext-hash mismatch, as the caller of decrypt and the
\* caller of decrypt_file see it.
C7_Witness ==
    /\ pc = "decrypted"
    /\ codecResult.err = "DecryptionException"
    /\ codecResult.cause = <<Integrity>>
    /\ result.err = "FileDecryptionException"
    /\ result.cause = <<"DecryptionException", Integrity>>

\* C8: the file encrypt_file wrote holds ciphertext, nonce, tag, then
\* sha = SHA256(plaintext), then file_sha = SHA256 of the serialisation of
\* the four fields before it; the hash decrypt_file recomputes from the
\* file as written equals the stored file_sha, so decrypt_file does not
\* reject it.
C8_HashesAsWritten ==
    /\ (pc = "stored" /\ ~tampered
          => /\ encFile.kind = "json"
             /\ [i \in 1..Len(encFile.doc) |-> encFile.doc[i].k]
                  = <<"ciphertext", "nonce", "tag", "sha", "file_sha">>
             /\ SubSeq(encFile.doc, 1, 3) = codecResult.val
             /\ encFile.doc[4].v = compute_sha256(data)
             /\ encFile.doc[5].v
                  = compute_sha256(JsonDumps(SubSeq(encFile.doc, 1, 4)))
             /\ ActualFileSha(encFile.doc) = Get(encFile.doc, "file_sha"))
    /\ (pc = "decrypted" /\ ~tampered /\ validate /\ encFile.kind = "json"
          => decryptCalled)

C8_Witness ==
    /\ pc = "decrypted" /\ ~tampered /\ validate /\ encFile.kind = "json"
    /\ Len(data) = MaxLen
    /\ decryptCalled /\ result.ok /\ warnings = <<>>

\* C10: in decrypt_file with validate_integrity=True the plaintext-hash
\* comparison made after decrypt returned never fails: when sha is present
\* and differs from the hash of the decrypted plaintext, decrypt itself has
\* raised, and the mismatch reaches the caller as the codec's
\* DecryptionException.
C10_OuterShaCheckUnreachable ==
    pc = "decrypted"
      => /\ ~(decryptCalled /\ result.cause = <<Integrity>>)
         /\ (validate /\ decryptCalled /\ Has(encFile.doc, "sha")
             /\ Unchecked.ok
             /\ compute_sha256(Unchecked.val) # Get(encFile.doc, "sha")
               => /\ codecResult.err = "DecryptionException"
                  /\ codecResult.cause = <<Integrity>>
                  /\ result.cause = <<"DecryptionException", Integrity>>)

C10_Witness ==
    /\ pc = "decrypted" /\ validate /\ decryptCalled
    /\ Has(encFile.doc, "sha") /\ Unchecked.ok
    /\ compute_sha256(Unchecked.val) # Get(encFile.doc, "sha")
    /\ result.cause = <<"DecryptionException", Integrity>>

\* --------------------------------------------------- key derivation runs

\* Salts a caller may hand in: any length up to MaxSaltLen.
Salts ==
    UNION {{[i \in 1..n |-> 0], [i \in 1..n |-> (i * 53) % 256]} :
             n \in 0..MaxSaltLen}

KdfInit ==
    /\ pc = "idle"
    /\ data = <<>>
    /\ key = [id |-> 1, len |-> KEY_SIZE]
    /\ issued = <<>>
    /\ envelope = <<>>
    /\ tampered = FALSE
    /\ decKey = [id |-> 1, len |-> KEY_SIZE]
    /\ validate = TRUE
    /\ result = NoResult
    /\ inFile = NoFile
    /\ encFile = NoFile
    /\ outFile = NoFile
    /\ outBefore = NoFile
    /\ resealed = FALSE
    /\ codecResult = NoResult
    /\ decryptCalled = FALSE
    /\ warnings = <<>>
    /\ password = <<>>
    /\ salt = <<>>
    /\ derivationStarted = FALSE

\* salt = generate_salt()
GenerateSalt(s) ==
    /\ pc = "idle"
    /\ salt' = s
    /\ pc' = "salted"
    /\ UNCHANGED <<codecVars, fileVars, password, derivationStarted>>

\* The caller brings a salt of its own.
SupplySalt(s) ==
    /\ pc = "idle"
    /\ salt' = s
    /\ pc' = "salted"
    /\ UNCHANGED <<codecVars, fileVars, password, derivationStarted>>

\* key = derive_key(password, salt)
DeriveKey(pw) ==
    /\ pc = "salted"
    /\ \E r \in {derive_key(pw, salt)} :
          /\ result' = r.res
          /\ derivationStarted' = r.started
          /\ key' = (IF r.res.ok THEN r.res.val ELSE key)
    /\ password' = pw
    /\ pc' = "derived"
    /\ UNCHANGED <<data, issued, envelope, tampered, decKey, validate,
                   fileVars, salt>>

KdfNext ==
    \/ \E s \in GeneratedSalts : GenerateSalt(s)
    \/ \E s \in Salts : SupplySalt(s)
    \/ \E pw \in Texts : DeriveKey(pw)

KdfSpec == KdfInit /\ [][KdfNext]_vars

\* C9: for a salt whose length is not 16 bytes derive_key raises
\* InvalidSaltException itself (not wrapped in InvalidKeyException) without
\* entering the derivation; for a 16-byte salt the length check passes and
\* the derivation is entered.
C9_SaltLength ==
    pc = "derived"
      => /\ (Len(salt) # 16
               => /\ result.err = "InvalidSaltException"
                  /\ result.cause = <<>>
                  /\ ~derivationStarted)
         /\ (Len(salt) = 16
               => /\ derivationStarted
                  /\ result.err # "InvalidSaltException"
                  /\ (result.ok \/ result.err = "InvalidKeyException"))

C9_Witness ==
    /\ pc = "derived"
    /\ Len(salt) = 17
    /\ result.err = "InvalidSaltException"
    /\ ~derivationStarted

====
